---- MODULE Spec2Model ----
(***************************************************************************)
(* Model of RingBuffer<T, SIZE> (src/src/ring.rs): a fixed-capacity ring   *)
(* of slots with two atomic counters, `index` (head) and `usage`           *)
(* (occupancy), and the two operations push and pop, each a retry loop     *)
(* around one compare_exchange.  Every atomic access and every slot        *)
(* access is one step of the calling thread, so that the steps of          *)
(* different calls interleave as they do on shared memory.                 *)
(***************************************************************************)
EXTENDS Integers, Sequences, FiniteSets

\* ---- bounds of the model ------------------------------------------------
\* SIZE ranges over 0 .. MaxSize
MaxSize == 2
\* number of calling threads
NThreads == 2
\* calls made in all when calls may overlap (Spec)
MaxOps == 3
\* calls made in all when calls never overlap (SpecSeq)
MaxSeqOps == 7
\* pushes made in all before the drain (SpecProd)
MaxProdPushes == 3
\* calls made in all under fair scheduling (SpecLive)
MaxLiveOps == 2
\* width of usize in the model (64 in the source); wide enough that a wrapped
\* counter stays above SIZE for as many calls as the model makes
UsizeBits == 6

\* usize arithmetic wraps modulo 2^bits (fetch_sub on 0 wraps around)
UsizeMod == 2 ^ UsizeBits

Threads == 1 .. NThreads

\* ---- slot contents ------------------------------------------------------
\* Values pushed are the positive stamps 1, 2, ...; the three other bit
\* patterns a slot or a returned T can carry are coded below 1.
Zeroed == 0
Garbage == -1
Uninit == -2

VARIABLES SIZE, panicked, buf, index, usage, pc, u, i, val, old, clock, hist,
          tries, writes, seen

vars == <<SIZE, panicked, buf, index, usage, pc, u, i, val, old, clock, hist,
          tries, writes, seen>>

\* bookkeeping of the retry loops: tries[t] counts the iterations of the loop
\* of t's call, writes counts the successful updates of each atomic, and
\* seen[t] is what writes was when t loaded each atomic
book == <<tries, writes, seen>>

shared == <<SIZE, panicked, buf, index, usage>>

\* Option<T>: None is the empty sequence, Some(x) is <<x>>
None == << >>

Some(x) == <<x>>

\* the largest stamp a call that overlaps another can push (calls that never
\* overlap read no slot before it is written)
MaxStamp == IF MaxProdPushes > MaxOps THEN MaxProdPushes ELSE MaxOps

\* what reading a slot through assume_init can produce: the stored bits,
\* or, for a slot never written, any bit pattern at all
ReadSlot(c) ==
    IF c = Uninit THEN {Garbage, Zeroed} \cup (1 .. MaxStamp) ELSE {c}

\* mutant: the head compare_exchange stores i + 1 without the modulo
NextIndexNoWrap(h) == h + 1

\* mutant: the head compare_exchange stores the head it read
NextIndexStuck(h) == h % SIZE

\* (i + 1) % SIZE, the new head of both head compare_exchanges
NextIndex(h) == (h + 1) % SIZE

\* mutant: the not-full push forgets the offset and writes at the head
PushSlotAtHead(h, n) == h % SIZE

\* (i + u) % SIZE, the slot a not-full push writes
PushSlot(h, n) == (h + n) % SIZE

\* mutant: the branch of push tests u <= SIZE
NotFullInclusive(n) == n <= SIZE

\* u < SIZE, the branch of push
NotFull(n) == n < SIZE

\* mutant: pop leaves usage as it was
FetchSubNothing(n) == n

\* fetch_sub(1) on an AtomicUsize
FetchSub(n) == (n + UsizeMod - 1) % UsizeMod

Quiescent == \A t \in Threads : pc[t] = "idle"

\* mutant: new without its test for SIZE == 0
InitNoPanic ==
    /\ SIZE \in 0 .. MaxSize
    /\ panicked = FALSE
    /\ buf = [k \in 0 .. SIZE - 1 |-> Uninit]
    /\ index = 0
    /\ usage = 0
    /\ pc = [t \in Threads |-> "idle"]
    /\ u = [t \in Threads |-> 0]
    /\ i = [t \in Threads |-> 0]
    /\ val = [t \in Threads |-> 0]
    /\ old = [t \in Threads |-> 0]
    /\ clock = 0
    /\ hist = << >>
    /\ tries = [t \in Threads |-> 0]
    /\ writes = [usage |-> 0, index |-> 0]
    /\ seen = [t \in Threads |-> [usage |-> 0, index |-> 0]]

\* RingBuffer::new for a given SIZE
Init ==
    /\ SIZE \in 0 .. MaxSize
    /\ panicked = (SIZE = 0)
    /\ buf = [k \in 0 .. SIZE - 1 |-> Uninit]
    /\ index = 0
    /\ usage = 0
    /\ pc = [t \in Threads |-> "idle"]
    /\ u = [t \in Threads |-> 0]
    /\ i = [t \in Threads |-> 0]
    /\ val = [t \in Threads |-> 0]
    /\ old = [t \in Threads |-> 0]
    /\ clock = 0
    /\ hist = << >>
    /\ tries = [t \in Threads |-> 0]
    /\ writes = [usage |-> 0, index |-> 0]
    /\ seen = [t \in Threads |-> [usage |-> 0, index |-> 0]]

\* a call that returns r records itself, drops its locals and leaves its
\* thread idle
Return(t, op, arg, r) ==
    /\ hist' = Append(hist, [op |-> op, arg |-> arg, ret |-> r])
    /\ pc' = [pc EXCEPT ![t] = "idle"]
    /\ u' = [u EXCEPT ![t] = 0]
    /\ i' = [i EXCEPT ![t] = 0]
    /\ val' = [val EXCEPT ![t] = 0]
    /\ old' = [old EXCEPT ![t] = 0]
    /\ tries' = [tries EXCEPT ![t] = 0]
    /\ seen' = [seen EXCEPT ![t] = [usage |-> 0, index |-> 0]]

\* ---- push ---------------------------------------------------------------
CallPush(t) ==
    /\ ~panicked
    /\ pc[t] = "idle"
    /\ clock' = clock + 1
    /\ val' = [val EXCEPT ![t] = clock + 1]
    /\ pc' = [pc EXCEPT ![t] = "push_load_u"]
    /\ UNCHANGED <<shared, u, i, old, hist, book>>

PushLoadUsage(t) ==
    /\ pc[t] = "push_load_u"
    /\ u' = [u EXCEPT ![t] = usage]
    /\ tries' = [tries EXCEPT ![t] = @ + 1]
    /\ seen' = [seen EXCEPT ![t].usage = writes.usage]
    /\ pc' = [pc EXCEPT ![t] = "push_load_i"]
    /\ UNCHANGED <<shared, i, val, old, clock, hist, writes>>

PushLoadIndex(t) ==
    /\ pc[t] = "push_load_i"
    /\ i' = [i EXCEPT ![t] = index]
    /\ seen' = [seen EXCEPT ![t].index = writes.index]
    /\ pc' = [pc EXCEPT ![t] = "push_cas"]
    /\ UNCHANGED <<shared, u, val, old, clock, hist, tries, writes>>

\* mutant: a failed compare_exchange on usage is repeated with the stale u
PushReserveNoReload(t) ==
    /\ pc[t] = "push_cas"
    /\ u[t] < SIZE
    /\ IF usage = u[t]
       THEN /\ usage' = (u[t] + 1) % UsizeMod
            /\ writes' = [writes EXCEPT !.usage = @ + 1]
            /\ pc' = [pc EXCEPT ![t] = "push_write"]
       ELSE /\ usage' = usage
            /\ writes' = writes
            /\ pc' = pc
    /\ UNCHANGED <<SIZE, panicked, buf, index, u, i, val, old, clock, hist,
                   tries, seen>>

\* not-full branch: compare_exchange(u, u + 1) on usage
PushReserve(t) ==
    /\ pc[t] = "push_cas"
    /\ NotFull(u[t])
    /\ IF usage = u[t]
       THEN /\ usage' = (u[t] + 1) % UsizeMod
            /\ writes' = [writes EXCEPT !.usage = @ + 1]
            /\ pc' = [pc EXCEPT ![t] = "push_write"]
       ELSE /\ usage' = usage
            /\ writes' = writes
            /\ pc' = [pc EXCEPT ![t] = "push_load_u"]
    /\ UNCHANGED <<SIZE, panicked, buf, index, u, i, val, old, clock, hist,
                   tries, seen>>

\* the plain store of the value into the reserved slot; returns None
PushWrite(t) ==
    /\ pc[t] = "push_write"
    /\ buf' = [buf EXCEPT ![PushSlot(i[t], u[t])] = val[t]]
    /\ Return(t, "push", val[t], None)
    /\ UNCHANGED <<SIZE, panicked, index, usage, clock, writes>>

\* mutant: a compare_exchange on index that may fail with index unchanged
PushEvictSpurious(t) ==
    /\ pc[t] = "push_cas"
    /\ ~NotFull(u[t])
    /\ \/ /\ index = i[t]
          /\ index' = NextIndex(i[t])
          /\ writes' = [writes EXCEPT !.index = @ + 1]
          /\ pc' = [pc EXCEPT ![t] = "push_swap_rd"]
       \/ /\ index' = index
          /\ writes' = writes
          /\ pc' = [pc EXCEPT ![t] = "push_load_u"]
    /\ UNCHANGED <<SIZE, panicked, buf, usage, u, i, val, old, clock, hist,
                   tries, seen>>

\* full branch: compare_exchange(i, (i + 1) % SIZE) on index
PushEvict(t) ==
    /\ pc[t] = "push_cas"
    /\ ~NotFull(u[t])
    /\ IF index = i[t]
       THEN /\ index' = NextIndex(i[t])
            /\ writes' = [writes EXCEPT !.index = @ + 1]
            /\ pc' = [pc EXCEPT ![t] = "push_swap_rd"]
       ELSE /\ index' = index
            /\ writes' = writes
            /\ pc' = [pc EXCEPT ![t] = "push_load_u"]
    /\ UNCHANGED <<SIZE, panicked, buf, usage, u, i, val, old, clock, hist,
                   tries, seen>>

\* ptr::swap, first half: the slot's content is read out
PushSwapRead(t) ==
    /\ pc[t] = "push_swap_rd"
    /\ \E c \in ReadSlot(buf[i[t]]) : old' = [old EXCEPT ![t] = c]
    /\ pc' = [pc EXCEPT ![t] = "push_swap_wr"]
    /\ UNCHANGED <<shared, u, i, val, clock, hist, book>>

\* mutant: the swap hands the old content back but leaves it in the slot
PushSwapWriteKeepsOld(t) ==
    /\ pc[t] = "push_swap_wr"
    /\ buf' = [buf EXCEPT ![i[t]] = old[t]]
    /\ Return(t, "push", val[t], Some(old[t]))
    /\ UNCHANGED <<SIZE, panicked, index, usage, clock, writes>>

\* ptr::swap, second half: the value is stored; returns Some(old content)
PushSwapWrite(t) ==
    /\ pc[t] = "push_swap_wr"
    /\ buf' = [buf EXCEPT ![i[t]] = val[t]]
    /\ Return(t, "push", val[t], Some(old[t]))
    /\ UNCHANGED <<SIZE, panicked, index, usage, clock, writes>>

\* ---- pop ----------------------------------------------------------------
CallPop(t) ==
    /\ ~panicked
    /\ pc[t] = "idle"
    /\ clock' = clock + 1
    /\ pc' = [pc EXCEPT ![t] = "pop_load_u"]
    /\ UNCHANGED <<shared, u, i, val, old, hist, book>>

PopLoadUsage(t) ==
    /\ pc[t] = "pop_load_u"
    /\ u' = [u EXCEPT ![t] = usage]
    /\ tries' = [tries EXCEPT ![t] = @ + 1]
    /\ seen' = [seen EXCEPT ![t].usage = writes.usage]
    /\ pc' = [pc EXCEPT ![t] = "pop_load_i"]
    /\ UNCHANGED <<shared, i, val, old, clock, hist, writes>>

PopLoadIndex(t) ==
    /\ pc[t] = "pop_load_i"
    /\ i' = [i EXCEPT ![t] = index]
    /\ seen' = [seen EXCEPT ![t].index = writes.index]
    /\ pc' = [pc EXCEPT ![t] = "pop_cas"]
    /\ UNCHANGED <<shared, u, val, old, clock, hist, tries, writes>>

\* mutant: pop without its test for u == 0
PopAdvanceUnchecked(t) ==
    /\ pc[t] = "pop_cas"
    /\ hist' = hist
    /\ IF index = i[t]
       THEN /\ index' = (i[t] + 1) % SIZE
            /\ writes' = [writes EXCEPT !.index = @ + 1]
            /\ pc' = [pc EXCEPT ![t] = "pop_sub"]
       ELSE /\ index' = index
            /\ writes' = writes
            /\ pc' = [pc EXCEPT ![t] = "pop_load_u"]
    /\ UNCHANGED <<SIZE, panicked, buf, usage, u, i, val, old, clock,
                   tries, seen>>

\* if u == 0 return None; else compare_exchange(i, (i + 1) % SIZE) on index
PopAdvance(t) ==
    /\ pc[t] = "pop_cas"
    /\ IF u[t] = 0
       THEN /\ Return(t, "pop", 0, None)
            /\ index' = index
            /\ writes' = writes
       ELSE /\ UNCHANGED <<u, i, val, old, hist, tries, seen>>
            /\ IF index = i[t]
               THEN /\ index' = NextIndex(i[t])
                    /\ writes' = [writes EXCEPT !.index = @ + 1]
                    /\ pc' = [pc EXCEPT ![t] = "pop_sub"]
               ELSE /\ index' = index
                    /\ writes' = writes
                    /\ pc' = [pc EXCEPT ![t] = "pop_load_u"]
    /\ UNCHANGED <<SIZE, panicked, buf, usage, clock>>

\* usage.fetch_sub(1)
PopSub(t) ==
    /\ pc[t] = "pop_sub"
    /\ usage' = FetchSub(usage)
    /\ writes' = [writes EXCEPT !.usage = @ + 1]
    /\ pc' = [pc EXCEPT ![t] = "pop_swap_rd"]
    /\ UNCHANGED <<SIZE, panicked, buf, index, u, i, val, old, clock, hist,
                   tries, seen>>

PopSwapRead(t) ==
    /\ pc[t] = "pop_swap_rd"
    /\ \E c \in ReadSlot(buf[i[t]]) : old' = [old EXCEPT ![t] = c]
    /\ pc' = [pc EXCEPT ![t] = "pop_swap_wr"]
    /\ UNCHANGED <<shared, u, i, val, clock, hist, book>>

\* the zeroed placeholder is stored; returns Some(old content)
PopSwapWrite(t) ==
    /\ pc[t] = "pop_swap_wr"
    /\ buf' = [buf EXCEPT ![i[t]] = Zeroed]
    /\ Return(t, "pop", 0, Some(old[t]))
    /\ UNCHANGED <<SIZE, panicked, index, usage, clock, writes>>

\* one step of a call already under way
Step(t) ==
    \/ PushLoadUsage(t)
    \/ PushLoadIndex(t)
    \/ PushReserve(t)
    \/ PushWrite(t)
    \/ PushEvict(t)
    \/ PushSwapRead(t)
    \/ PushSwapWrite(t)
    \/ PopLoadUsage(t)
    \/ PopLoadIndex(t)
    \/ PopAdvance(t)
    \/ PopSub(t)
    \/ PopSwapRead(t)
    \/ PopSwapWrite(t)

\* ---- any number of threads calling push and pop at any time -------------
ConcPush(t) == clock < MaxOps /\ CallPush(t)

ConcPop(t) == clock < MaxOps /\ CallPop(t)

Next == \E t \in Threads : ConcPush(t) \/ ConcPop(t) \/ Step(t)

Spec == Init /\ [][Next]_vars

\* ---- calls that never overlap: a call starts only when none is running ---
SeqPush(t) == clock < MaxSeqOps /\ Quiescent /\ CallPush(t)

SeqPop(t) == clock < MaxSeqOps /\ Quiescent /\ CallPop(t)

NextSeq == \E t \in Threads : SeqPush(t) \/ SeqPop(t) \/ Step(t)

SpecSeq == Init /\ [][NextSeq]_vars

\* ---- mt_test: concurrent pushes, joined, then one thread drains ----------
NoPopYet ==
    /\ \A k \in 1 .. Len(hist) : hist[k].op = "push"
    /\ \A t \in Threads : pc[t] \in
           {"idle", "push_load_u", "push_load_i", "push_cas", "push_write",
            "push_swap_rd", "push_swap_wr"}

ProdPush(t) == clock < MaxProdPushes /\ NoPopYet /\ CallPush(t)

\* the main thread pops SIZE times and once more
DrainPop(t) ==
    /\ t = 1
    /\ Quiescent
    /\ Cardinality({k \in 1 .. Len(hist) : hist[k].op = "pop"}) <= SIZE
    /\ CallPop(t)

NextProd == \E t \in Threads : ProdPush(t) \/ DrainPop(t) \/ Step(t)

SpecProd == Init /\ [][NextProd]_vars

\* ---- finitely many calls, every thread scheduled again and again ---------
LivePush(t) == clock < MaxLiveOps /\ CallPush(t)

LivePop(t) == clock < MaxLiveOps /\ CallPop(t)

NextLive == \E t \in Threads : LivePush(t) \/ LivePop(t) \/ Step(t)

SpecLive == Init /\ [][NextLive]_vars /\ \A t \in Threads : WF_vars(Step(t))

\* ---- one producer and one consumer, arbitrarily interleaved ---------------
Producer == 1

Consumer == 2

SpscPush(t) == t = Producer /\ clock < MaxOps /\ CallPush(t)

SpscPop(t) == t = Consumer /\ clock < MaxOps /\ CallPop(t)

NextSpsc == \E t \in Threads : SpscPush(t) \/ SpscPop(t) \/ Step(t)

SpecSpsc == Init /\ [][NextSpsc]_vars

\* ---- overlapping calls, threads taken in order ----------------------------
\* Threads run the same code and keep nothing between calls, so a call by any
\* idle thread is, up to renaming threads, a call by the lowest-numbered idle
\* one: these are the interleavings of Spec with one representative each.
LowestIdle(t) == pc[t] = "idle" /\ \A s \in 1 .. t - 1 : pc[s] # "idle"

SymPush(t) == clock < MaxOps /\ LowestIdle(t) /\ CallPush(t)

SymPop(t) == clock < MaxOps /\ LowestIdle(t) /\ CallPop(t)

NextSym == \E t \in Threads : SymPush(t) \/ SymPop(t) \/ Step(t)

SpecSym == Init /\ [][NextSym]_vars

\* ---- what the callers observed ------------------------------------------
IsPush(e) == e.op = "push"

IsPop(e) == e.op = "pop"

\* the completed pushes and the completed pops, each in completion order
Pushed == SelectSeq(hist, IsPush)

Popped == SelectSeq(hist, IsPop)

Min(a, b) == IF a < b THEN a ELSE b

\* every completed push precedes every completed pop
PushesThenPops ==
    \A a, b \in 1 .. Len(hist) : (a < b /\ IsPop(hist[a])) => IsPop(hist[b])

\* the last Min(n, SIZE) pushed values, oldest first
Kept ==
    LET n == Len(Pushed)
    IN  [k \in 1 .. Min(n, SIZE) |-> Pushed[n - Min(n, SIZE) + k].arg]

\* C1: sequential FIFO with eviction.  When one call at a time pushes
\* v_1 .. v_n and then pops, the pops return the last min(n, SIZE) pushed
\* values in push order, and every pop after those returns None.
C1_SequentialFifo ==
    PushesThenPops =>
        \A k \in 1 .. Len(Popped) :
            Popped[k].ret = IF k <= Len(Kept) THEN Some(Kept[k]) ELSE None

\* more pushes than slots, then a full drain that ends in None
C1_Witness ==
    /\ PushesThenPops
    /\ Quiescent
    /\ SIZE = 2
    /\ Len(Pushed) = 4
    /\ Len(Popped) = 3
    /\ Popped[3].ret = None

\* ---- the bounded FIFO queue that push and pop are meant to implement ----
\* the queue after one call
AbsStep(q, e) ==
    IF IsPush(e)
    THEN (IF Len(q) = SIZE THEN Append(Tail(q), e.arg) ELSE Append(q, e.arg))
    ELSE (IF q = << >> THEN q ELSE Tail(q))

\* the result of one call on queue q
AbsRet(q, e) ==
    IF IsPush(e)
    THEN (IF Len(q) = SIZE THEN Some(Head(q)) ELSE None)
    ELSE (IF q = << >> THEN None ELSE Some(Head(q)))

RECURSIVE AbsRun(_)
\* the queue after the calls of h, in order
AbsRun(h) ==
    IF h = << >> THEN << >>
    ELSE AbsStep(AbsRun(SubSeq(h, 1, Len(h) - 1)), h[Len(h)])

\* the slots from the head on, usage of them, oldest first
Run == [k \in 1 .. usage |-> buf[(index + k - 1) % SIZE]]

\* C9: calls that do not overlap refine the bounded FIFO queue.  Every
\* completed call returned what the abstract queue of capacity SIZE returns
\* for the same calls in the same order, and between calls the slots from
\* the head on hold the abstract queue.
C9_RefinesQueue ==
    /\ \A k \in 1 .. Len(hist) :
           hist[k].ret = AbsRet(AbsRun(SubSeq(hist, 1, k - 1)), hist[k])
    /\ Quiescent /\ ~panicked => Run = AbsRun(hist)

\* pushes and pops mixed: an eviction, a pop, a push that wraps, pops to None
C9_Witness ==
    /\ Quiescent
    /\ SIZE = 2
    /\ Len(hist) = 7
    /\ hist[3].ret = Some(1)
    /\ IsPop(hist[4]) /\ hist[4].ret = Some(2)
    /\ IsPush(hist[5]) /\ hist[5].ret = None
    /\ IsPop(hist[6]) /\ hist[6].ret = Some(3)
    /\ IsPop(hist[7]) /\ hist[7].ret = Some(5)

\* C8: eviction return value.  A push that runs alone on a full buffer
\* (usage = SIZE) commits on the head, returns Some(x) where x is the oldest
\* stored value, the one at the head that the next pop would have returned,
\* leaves usage at SIZE, advances the head by one modulo SIZE and leaves its
\* own value as the newest element; a push that returns None did not start
\* on a full buffer.
C8_EvictionReturn ==
    [][\A t \in Threads :
        /\ (pc[t] = "push_cas" /\ usage = SIZE) =>
               /\ pc'[t] = "push_swap_rd"
               /\ index' = (index + 1) % SIZE
               /\ buf[index] = Head(AbsRun(hist))
        /\ (pc[t] = "push_swap_wr" /\ pc'[t] = "idle") =>
               /\ hist'[Len(hist')].ret = Some(Head(AbsRun(hist)))
               /\ usage' = SIZE
               /\ index' = (i[t] + 1) % SIZE
               /\ buf'[(index' + SIZE - 1) % SIZE] = val[t]
               /\ Run' = Append(Tail(AbsRun(hist)), val[t])
        /\ (pc[t] = "push_write" /\ pc'[t] = "idle") =>
               Len(AbsRun(hist)) < SIZE
      ]_vars

\* a push has just evicted the oldest of a full three-call-old buffer whose
\* head had already moved off slot 0
C8_Witness ==
    /\ Quiescent
    /\ SIZE = 2
    /\ Len(hist) = 4
    /\ IsPush(hist[4]) /\ hist[4].ret = Some(2)
    /\ hist[3].ret = Some(1)
    /\ index = 0
    /\ usage = SIZE

\* C10: removal from an empty buffer is a no-op.  A pop that runs alone on a
\* buffer with usage = 0, fresh or drained, returns None at its first test,
\* without retrying, and no step of it changes index, usage or any slot.
C10_EmptyPopNoOp ==
    [][\A t \in Threads :
        (pc[t] \in {"pop_load_u", "pop_load_i", "pop_cas"} /\ usage = 0) =>
            /\ index' = index
            /\ usage' = usage
            /\ buf' = buf
            /\ pc'[t] # "pop_sub"
            /\ (pc[t] = "pop_cas") =>
                   /\ pc'[t] = "idle"
                   /\ hist' = Append(hist, [op |-> "pop", arg |-> 0, ret |-> None])
      ]_vars

\* a drained buffer was popped twice more, and a fresh one popped at once
C10_Witness ==
    /\ Quiescent
    /\ Len(hist) >= 4
    /\ IsPush(hist[Len(hist) - 3])
    /\ IsPop(hist[Len(hist) - 2]) /\ hist[Len(hist) - 2].ret # None
    /\ IsPop(hist[Len(hist) - 1]) /\ hist[Len(hist) - 1].ret = None
    /\ IsPop(hist[Len(hist)]) /\ hist[Len(hist)].ret = None
    /\ IsPop(hist[1]) /\ hist[1].ret = None

\* ---- slots and values at a quiescent point ------------------------------
\* a slot content that is a pushed value
Live(c) == c >= 1

\* slot k lies in the run of usage slots that starts at the head
InRun(k) == ((k + SIZE - index) % SIZE) < usage

\* the values whose push has returned
PushedValues == {Pushed[k].arg : k \in 1 .. Len(Pushed)}

\* how many calls returned Some(v)
TimesReturned(v) == Cardinality({k \in 1 .. Len(hist) : hist[k].ret = Some(v)})

\* how many slots hold v
TimesStored(v) == Cardinality({k \in 0 .. SIZE - 1 : buf[k] = v})

\* C2: occupancy bound at quiescence.  Whenever no call is in flight,
\* 0 <= usage <= SIZE: the counter has neither wrapped below 0 nor passed
\* the capacity.
C2_UsageBound == Quiescent => (0 <= usage /\ usage <= SIZE)

\* C3: no duplication and no loss.  Whenever no call is in flight, every
\* value whose push has returned is either held in exactly one slot of the
\* run and was never returned, or is in no slot and was returned exactly
\* once.
C3_NoDupNoLoss ==
    Quiescent =>
        \A v \in PushedValues :
            /\ TimesStored(v) + TimesReturned(v) = 1
            /\ \A k \in 0 .. SIZE - 1 : buf[k] = v => InRun(k)

\* C4: contiguous run (I2).  Whenever no call is in flight, the slots that
\* hold a live value are exactly index, index + 1, ..., index + usage - 1
\* modulo SIZE.
C4_ContiguousRun ==
    Quiescent => \A k \in 0 .. SIZE - 1 : Live(buf[k]) <=> InRun(k)

\* C5: occupancy accuracy.  Whenever no call is in flight, usage is the
\* number of values pushed and not yet returned by a pop or an evicting push.
C5_UsageAccurate ==
    Quiescent =>
        usage = Cardinality({v \in PushedValues : TimesReturned(v) = 0})

\* ---- mt_test: the drain after the producers have joined -----------------
\* C6: producers-only drain count.  After pushes that overlapped freely and
\* have all returned, the pops of one draining thread return Some exactly
\* min(SIZE, number of pushes) times, and None from then on.
C6_DrainCount ==
    \A k \in 1 .. Len(Popped) :
        (Popped[k].ret # None) <=> (k <= Min(SIZE, Len(Pushed)))

\* three pushes that overlapped (the later stamp returned first) into two
\* slots, then a drain to None
C6_Witness ==
    /\ Quiescent
    /\ SIZE = 2
    /\ Len(Pushed) = 3
    /\ Pushed[1].arg > Pushed[2].arg
    /\ Len(Popped) = 3
    /\ Popped[2].ret # None
    /\ Popped[3].ret = None

\* C7: producers-only drain order.  After pushes of values stamped from the
\* clock when each push was called, all returned, the drained values are
\* non-decreasing.
C7_DrainOrdered ==
    \A j, k \in 1 .. Len(Popped) :
        (j < k /\ Popped[j].ret # None /\ Popped[k].ret # None) =>
            Popped[j].ret[1] <= Popped[k].ret[1]

SingleSlot(k) == IF k >= 1 /\ IsPush(hist[k]) THEN Some(hist[k].arg) ELSE None

\* C12: a buffer of capacity 1 is a single-slot overwrite buffer.  When calls
\* do not overlap and SIZE = 1, a push into the empty slot returns None, a
\* push into the occupied slot returns Some(the value stored before) and
\* leaves exactly its own value stored, a pop returns the stored value and
\* then None, and index is always 0.
C12_SingleSlot ==
    SIZE = 1 =>
        /\ index = 0
        /\ \A k \in 1 .. Len(hist) : hist[k].ret = SingleSlot(k - 1)
        /\ Quiescent =>
               /\ usage = Len(SingleSlot(Len(hist)))
               /\ usage = 1 => Some(buf[0]) = SingleSlot(Len(hist))

\* first push None, two overwriting pushes, then the pop of the last value
\* and a pop of nothing
C12_Witness ==
    /\ SIZE = 1
    /\ Quiescent
    /\ Len(hist) = 5
    /\ IsPush(hist[1]) /\ hist[1].ret = None
    /\ IsPush(hist[2]) /\ hist[2].ret = Some(1)
    /\ IsPush(hist[3]) /\ hist[3].ret = Some(2)
    /\ IsPop(hist[4]) /\ hist[4].ret = Some(3)
    /\ IsPop(hist[5]) /\ hist[5].ret = None

\* ---- construction --------------------------------------------------------
\* C13: capacity-zero rejection.  new panics exactly when SIZE = 0, and then
\* no push or pop ever starts; for SIZE >= 1 the buffer starts with index 0,
\* usage 0 and SIZE slots, none of them written.
C13_ZeroRejected ==
    /\ panicked <=> (SIZE = 0)
    /\ panicked => (clock = 0 /\ hist = << >> /\ Quiescent)
    /\ (~panicked /\ clock = 0) =>
           /\ index = 0
           /\ usage = 0
           /\ DOMAIN buf = 0 .. SIZE - 1
           /\ \A k \in 0 .. SIZE - 1 : buf[k] = Uninit

\* construction with SIZE = 0 has panicked
C13_Witness == SIZE = 0 /\ panicked

\* ---- calls between their commit and their slot access --------------------
\* t's compare_exchange has succeeded and its slot write or swap is not done
Committed(t) ==
    pc[t] \in {"push_write", "push_swap_rd", "push_swap_wr",
               "pop_sub", "pop_swap_rd", "pop_swap_wr"}

\* the slot t's write or swap goes to
Target(t) == IF pc[t] = "push_write" THEN PushSlot(i[t], u[t]) ELSE i[t]

\* C14: exclusive slot access after reservation.  No two calls are at once
\* past their successful compare_exchange, short of completing their slot
\* write or swap, and aimed at the same slot.
C14_ExclusiveSlot ==
    \A s, t \in Threads :
        (s # t /\ Committed(s) /\ Committed(t)) => Target(s) # Target(t)

\* C15: a not-full push targets the next free slot.  Whenever a push's
\* compare_exchange on usage succeeds (u -> u + 1), the slot it goes on to
\* write is (index + u) % SIZE for the index of that moment and holds no
\* live value; and the push returns None without changing index.
C15_NextFreeSlot ==
    [][\A t \in Threads :
        /\ (pc[t] = "push_cas" /\ pc'[t] = "push_write") =>
               /\ PushSlot(i[t], u[t]) = (index + u[t]) % SIZE
               /\ ~Live(buf[PushSlot(i[t], u[t])])
        /\ (pc[t] = "push_write" /\ pc'[t] = "idle") =>
               /\ hist'[Len(hist')].ret = None
               /\ index' = index
      ]_vars

\* C16: eviction only on a really full buffer.  Whenever a push's
\* compare_exchange on index succeeds, usage = SIZE at that moment and the
\* slot at the old head holds a live value.
C16_EvictOnlyFull ==
    [][\A t \in Threads :
        (pc[t] = "push_cas" /\ pc'[t] = "push_swap_rd") =>
            /\ usage = SIZE
            /\ Live(buf[index])
      ]_vars

\* C17: head range.  In every state of a constructed buffer, calls in flight
\* or not, 0 <= index < SIZE; and every successful compare_exchange on index
\* sets it to (old index + 1) % SIZE, nothing else changing it.
C17_HeadRange ==
    /\ [](~panicked => (0 <= index /\ index < SIZE))
    /\ [][/\ writes.index' # writes.index => index' = (index + 1) % SIZE
          /\ writes.index' = writes.index => index' = index
         ]_vars

\* the head has wrapped: two pops of a two-slot buffer brought it back to 0
C17_Witness ==
    /\ SIZE = 2
    /\ writes.index = 2
    /\ index = 0

\* C18: lock-freedom of retries.  A call goes back to the top of its loop
\* only after a compare_exchange failed, and then a successful update of the
\* variable it compared (usage for a push that saw room, index for a push that
\* saw the buffer full and for a pop) happened after the call loaded it; the
\* updates are steps of calls in flight, so a call with nothing else in
\* flight commits on its first attempt.
C18_RetryHasCause ==
    [][/\ \A t \in Threads :
            /\ (pc[t] = "push_cas" /\ pc'[t] = "push_load_u" /\ NotFull(u[t])) =>
                   (usage # u[t] /\ writes.usage > seen[t].usage)
            /\ (pc[t] = "push_cas" /\ pc'[t] = "push_load_u" /\ ~NotFull(u[t])) =>
                   (index # i[t] /\ writes.index > seen[t].index)
            /\ (pc[t] = "pop_cas" /\ pc'[t] = "pop_load_u") =>
                   (index # i[t] /\ writes.index > seen[t].index)
            /\ (pc[t] \in {"push_cas", "pop_cas"}
                    /\ (\A s \in Threads \ {t} : pc[s] = "idle")
                    /\ tries[t] = 1
                    /\ seen[t] = writes) =>
                   pc'[t] \notin {"push_load_u", "pop_load_u"}
       /\ writes' # writes =>
            \E s \in Threads : /\ pc[s] \in {"push_cas", "pop_cas", "pop_sub"}
                               /\ pc'[s] # pc[s]
      ]_vars

\* a pop is in its second attempt after its compare_exchange on index failed
C18_Witness ==
    \E t \in Threads : tries[t] = 2 /\ pc[t] = "pop_load_i"

\* ---- values handed to push ------------------------------------------------
\* the values passed to a push so far, its call returned or still in flight
Inserted ==
    {hist[k].arg : k \in {j \in 1 .. Len(hist) : hist[j].op = "push"}}
        \cup {val[t] : t \in {s \in Threads : pc[s] \in
                {"push_load_u", "push_load_i", "push_cas", "push_write",
                 "push_swap_rd", "push_swap_wr"}}}

\* C19: returned values are real.  Under any interleaving, every Some(x)
\* returned by a pop or by an evicting push carries a value that was passed to
\* a push before; the content of a never-written slot or a pop's zeroed
\* placeholder is never returned.
C19_ReturnsReal ==
    \A k \in 1 .. Len(hist) :
        hist[k].ret # None =>
            /\ hist[k].ret[1] \in Inserted
            /\ hist[k].ret[1] \notin {Zeroed, Garbage, Uninit}

\* C20: single producer, single consumer.  With one thread only pushing and
\* one other thread only popping, arbitrarily interleaved, every Some returned
\* by a pop is a value passed to a push before, none is returned by two pops,
\* and the pops return values in the order they were pushed (the one producer
\* stamps its values in increasing order).
C20_SpscSafe ==
    /\ \A k \in 1 .. Len(Popped) :
           Popped[k].ret # None =>
               /\ Popped[k].ret[1] \in Inserted
               /\ Live(Popped[k].ret[1])
    /\ \A a, b \in 1 .. Len(Popped) :
           (a < b /\ Popped[a].ret # None /\ Popped[b].ret # None) =>
               Popped[a].ret[1] < Popped[b].ret[1]

====
